---------------------------- MODULE Spec2Model ----------------------------
(***************************************************************************)
(* State-machine model of telegram_translator_bot.py.                      *)
(*                                                                         *)
(* State: the two module-level dictionaries (user_preferences,             *)
(* user_statistics), the module-level zai_client, the process              *)
(* configuration (class Config and the environment it is read from), the  *)
(* position of main(), the one update being handled, and the record of     *)
(* what the last handled update produced (replies, callback answers, the   *)
(* completion request, what the completion service did with it, the        *)
(* exception that left the handler).                                       *)
(*                                                                         *)
(* Scheduling: main() builds the Application without concurrent_updates,   *)
(* so updates are handled one after the other; a handler and the error     *)
(* handler run to completion before the next update is fetched.            *)
(*                                                                         *)
(* Numbers: temperatures are integers in hundredths (0.3 is 30).           *)
(* Text: a display name is the sequence of its whitespace-separated words  *)
(* (str.split() is the sequence itself); a callback payload is a sequence  *)
(* of tokens in which a prefix such as "style_" is one token.  Message     *)
(* transport calls (reply_text, edit_message_text, answer) are taken to    *)
(* succeed whenever the object they are called on exists.                  *)
(***************************************************************************)
EXTENDS Integers, Sequences, FiniteSets, TLC

VARIABLES
    phase,              \* position of main(): "startup", "running", "exited"
    Config,             \* class Config: TELEGRAM_TOKEN, ZAI_API_KEY, ENABLE_STATS
    clientBuilds,       \* environment: does ZaiClient(api_key=...) construct
    zai_client,         \* module global: "None" or "client"
    user_preferences,   \* dict user_id -> preference record
    user_statistics,    \* dict user_id -> statistics record
    now,                \* datetime.now(), one tick per dispatched update
    inflight,           \* the update whose handler is suspended, or NoUpdate
    last                \* what the last dispatched update produced

vars == <<phase, Config, clientBuilds, zai_client, user_preferences,
          user_statistics, now, inflight, last>>

-----------------------------------------------------------------------------
(* Bounds of the model *)

\* number of updates dispatched in one run
MaxEvents == 3

\* caller identities (update.effective_user.id)
Users == {101, 202}

-----------------------------------------------------------------------------
(* Program constants *)

\* Config.MAX_MESSAGE_LENGTH, default of the environment variable
MAX_MESSAGE_LENGTH == 4000

DEFAULT_PREFERENCES ==
    [style |-> "professional", temperature |-> 30, format_preserve |-> TRUE,
     add_notes |-> FALSE, target_language |-> "vi", show_original |-> FALSE]

TRANSLATION_STYLES ==
    [professional |-> [name |-> <<"EMOJI_BRIEFCASE", "Chuyen", "nghiep">>,
                       description |-> "trang trong, chinh xac",
                       system_prompt |-> "SYS_PROFESSIONAL",
                       temperature |-> 30],
     casual       |-> [name |-> <<"EMOJI_SMILE", "Than", "thien">>,
                       description |-> "tu nhien, de hieu",
                       system_prompt |-> "SYS_CASUAL",
                       temperature |-> 50],
     academic     |-> [name |-> <<"EMOJI_GRADCAP", "Hoc", "thuat">>,
                       description |-> "chinh xac cao",
                       system_prompt |-> "SYS_ACADEMIC",
                       temperature |-> 20],
     creative     |-> [name |-> <<"EMOJI_PALETTE", "Sang", "tao">>,
                       description |-> "linh hoat",
                       system_prompt |-> "SYS_CREATIVE",
                       temperature |-> 70],
     technical    |-> [name |-> <<"EMOJI_GEAR", "Ky", "thuat">>,
                       description |-> "tai lieu ky thuat, IT",
                       system_prompt |-> "SYS_TECHNICAL",
                       temperature |-> 20]]

SUPPORTED_LANGUAGES ==
    [vi |-> <<"FLAG_VN", "Tieng", "Viet">>,
     en |-> <<"FLAG_GB", "English">>,
     zh |-> <<"FLAG_CN", "Zhongwen">>,
     ja |-> <<"FLAG_JP", "Nihongo">>,
     ko |-> <<"FLAG_KR", "Hangugeo">>,
     fr |-> <<"FLAG_FR", "Francais">>,
     de |-> <<"FLAG_DE", "Deutsch">>,
     es |-> <<"FLAG_ES", "Espanol">>,
     ru |-> <<"FLAG_RU", "Russkij">>,
     th |-> <<"FLAG_TH", "Thai">>]

StyleKeys == DOMAIN TRANSLATION_STYLES
LanguageCodes == DOMAIN SUPPORTED_LANGUAGES

\* the literal of translate_text's SUPPORTED_LANGUAGES.get(..., 'Tiếng Việt')
FallbackLanguageName == <<"Tieng", "Viet">>

\* the literal of settings_command's and stats_command's .get(..., 'Unknown')
UnknownLanguageName == <<"Unknown">>

-----------------------------------------------------------------------------
(* Inputs *)

\* message texts: a body and its len()
Texts == {[body |-> "full", len |-> 4000],
          [body |-> "long", len |-> 4001]}

\* what the completion service answers: a translated body (a translation,
\* or the text "full" handed back as it came), or an exception
GatewayResults == {[ok |-> TRUE, content |-> "xin chao"],
                   [ok |-> TRUE, content |-> "full"],
                   [ok |-> FALSE, cause |-> "timeout"]}

\* context.args[0] of /temp: a decimal numeral (in hundredths), or a string
\* float() parses to nan or inf, or one it raises ValueError on
TempArgs == {[t |-> "num", v |-> 5], [t |-> "num", v |-> 10],
             [t |-> "num", v |-> 75], [t |-> "num", v |-> 100],
             [t |-> "num", v |-> 105],
             [t |-> "nan"], [t |-> "text"]}

\* style keys and language codes a button payload may carry
StyleInputs == {"casual", "bogus"}
LanguageInputs == {"en", "xx"}

\* query.data of a button press, as tokens
CallbackData ==
    {<<"style_", k>> : k \in StyleInputs} \cup
    {<<"lang_", c>> : c \in LanguageInputs} \cup
    {<<"style_", "info">>,
     <<"toggle_format">>, <<"toggle_notes">>, <<"toggle_original">>,
     <<"menu_style">>, <<"menu_language">>, <<"menu_help">>,
     <<"reset_settings">>, <<"noop">>}

-----------------------------------------------------------------------------
(* Values *)

NoUpdate == [kind |-> "none"]
NoRequest == [sent |-> FALSE]
NoException == "none"
NoCompletion == [received |-> FALSE]

\* the record of an update that has not produced anything yet
Started(ev) ==
    [update |-> ev, replies |-> <<>>, request |-> NoRequest,
     gateway_calls |-> 0, gateway |-> "not_called", completion |-> NoCompletion,
     raised |-> NoException, reported |-> FALSE, done |-> FALSE]

-----------------------------------------------------------------------------
(* Dictionaries and the context a handler threads through its statements *)

\* d[k] = v on a Python dict
Put(d, k, v) == [x \in (DOMAIN d) \cup {k} |-> IF x = k THEN v ELSE d[x]]

\* the state a handler works on: the two dictionaries, the time of the
\* update, and what the update has produced so far
\* (.ret holds what translate_text returned)
Ctx(P, S, t, out) ==
    [P |-> P, S |-> S, t |-> t, out |-> out, ret |-> [success |-> FALSE]]

Raised(C) == C.out.raised # NoException

\* an exception leaves the handler: nothing after it runs
Raise(C, e) == [C EXCEPT !.out.raised = e]

\* a message, an edited message or a callback answer reaches the caller
Send(C, r) == [C EXCEPT !.out.replies = Append(@, r)]

\* update.message is set for message updates (commands and texts) and is
\* None for callback-query updates
HasMessage(ev) == ev.kind \in {"command", "text"}

\* await update.message.reply_text(...)
reply_text(C, ev, r) ==
    IF HasMessage(ev) THEN Send(C, r) ELSE Raise(C, "AttributeError")

\* variant: a new caller is handed the record of a caller already stored
get_user_prefs_Shared(P, user_id) ==
    IF user_id \in DOMAIN P THEN P
    ELSE IF DOMAIN P # {}
    THEN Put(P, user_id, P[CHOOSE k \in DOMAIN P : TRUE])
    ELSE Put(P, user_id, DEFAULT_PREFERENCES)

get_user_prefs(P, user_id) ==
    IF user_id \in DOMAIN P THEN P ELSE Put(P, user_id, DEFAULT_PREFERENCES)

\* variant: every recorded action stamps first_use as well as last_use
update_user_stats_RestampsFirstUse(S, user_id, action, t) ==
    IF ~Config.ENABLE_STATS THEN S
    ELSE LET S1 == IF user_id \in DOMAIN S THEN S
                   ELSE Put(S, user_id, [translations |-> 0, commands |-> 0,
                                         first_use |-> t, last_use |-> t])
             r  == S1[user_id]
             r1 == IF action = "translation"
                   THEN [r EXCEPT !.translations = @ + 1]
                   ELSE IF action = "command"
                   THEN [r EXCEPT !.commands = @ + 1]
                   ELSE r
         IN  Put(S1, user_id, [r1 EXCEPT !.first_use = t, !.last_use = t])

\* variant: the record is written whatever ENABLE_STATS says
update_user_stats_IgnoresFlag(S, user_id, action, t) ==
    LET S1 == IF user_id \in DOMAIN S THEN S
              ELSE Put(S, user_id, [translations |-> 0, commands |-> 0,
                                    first_use |-> t, last_use |-> t])
        r  == S1[user_id]
        r1 == IF action = "translation"
              THEN [r EXCEPT !.translations = @ + 1]
              ELSE IF action = "command"
              THEN [r EXCEPT !.commands = @ + 1]
              ELSE r
    IN  Put(S1, user_id, [r1 EXCEPT !.last_use = t])

update_user_stats(S, user_id, action, t) ==
    IF ~Config.ENABLE_STATS THEN S
    ELSE LET S1 == IF user_id \in DOMAIN S THEN S
                   ELSE Put(S, user_id, [translations |-> 0, commands |-> 0,
                                         first_use |-> t, last_use |-> t])
             r  == S1[user_id]
             r1 == IF action = "translation"
                   THEN [r EXCEPT !.translations = @ + 1]
                   ELSE IF action = "command"
                   THEN [r EXCEPT !.commands = @ + 1]
                   ELSE r
         IN  Put(S1, user_id, [r1 EXCEPT !.last_use = t])

\* the two statements most handlers open with
WithStats(C, ev, action) ==
    [C EXCEPT !.S = update_user_stats(C.S, ev.user, action, C.t)]
WithPrefs(C, ev) == [C EXCEPT !.P = get_user_prefs(C.P, ev.user)]

-----------------------------------------------------------------------------
(* Command handlers *)

start(C, ev) ==
    reply_text(WithStats(C, ev, "command"), ev, [kind |-> "welcome"])

help_command(C, ev) ==
    reply_text(WithStats(C, ev, "command"), ev, [kind |-> "help"])

about_command(C, ev) ==
    reply_text(WithStats(C, ev, "command"), ev, [kind |-> "about"])

\* SUPPORTED_LANGUAGES.get(code, 'Unknown')
LanguageNameOrUnknown(code) ==
    IF code \in LanguageCodes THEN SUPPORTED_LANGUAGES[code]
    ELSE UnknownLanguageName

stats_command(C, ev) ==
    LET C1 == WithStats(C, ev, "command")
    IN  IF ~Config.ENABLE_STATS
        THEN reply_text(C1, ev, [kind |-> "stats_disabled"])
        ELSE IF ev.user \notin DOMAIN C1.S
        THEN reply_text(C1, ev, [kind |-> "stats_none"])
        ELSE LET C2 == WithPrefs(C1, ev)
                 prefs == C2.P[ev.user]
                 stats == C2.S[ev.user]
             IN  IF prefs.style \notin StyleKeys THEN Raise(C2, "KeyError")
                 ELSE reply_text(C2, ev,
                        [kind |-> "stats",
                         translations |-> stats.translations,
                         commands |-> stats.commands,
                         style |-> TRANSLATION_STYLES[prefs.style].name,
                         language |-> LanguageNameOrUnknown(prefs.target_language),
                         first_use |-> stats.first_use,
                         last_use |-> stats.last_use])

\* variant: /reset also starts the statistics record of the caller afresh
reset_command_ClearsStats(C, ev) ==
    LET C1 == WithStats(C, ev, "command")
        C2 == [C1 EXCEPT !.P = Put(C1.P, ev.user, DEFAULT_PREFERENCES),
                         !.S = [u \in DOMAIN C1.S |->
                                  IF u = ev.user
                                  THEN [C1.S[u] EXCEPT !.translations = 0,
                                                       !.commands = 0]
                                  ELSE C1.S[u]]]
    IN  reply_text(C2, ev, [kind |-> "reset_done"])

reset_command(C, ev) ==
    LET C1 == WithStats(C, ev, "command")
        C2 == [C1 EXCEPT !.P = Put(C1.P, ev.user, DEFAULT_PREFERENCES)]
    IN  reply_text(C2, ev, [kind |-> "reset_done"])

language_command(C, ev) ==
    LET C1 == WithPrefs(WithStats(C, ev, "command"), ev)
    IN  reply_text(C1, ev, [kind |-> "language_menu",
                            current |-> C1.P[ev.user].target_language])

style_command(C, ev) ==
    LET C1 == WithPrefs(WithStats(C, ev, "command"), ev)
    IN  reply_text(C1, ev, [kind |-> "style_menu",
                            current |-> C1.P[ev.user].style])

settings_command(C, ev) ==
    LET C1 == WithPrefs(WithStats(C, ev, "command"), ev)
        prefs == C1.P[ev.user]
    IN  IF prefs.style \notin StyleKeys THEN Raise(C1, "KeyError")
        ELSE reply_text(C1, ev,
               [kind |-> "settings",
                style |-> TRANSLATION_STYLES[prefs.style].name,
                language |-> LanguageNameOrUnknown(prefs.target_language),
                temperature |-> prefs.temperature,
                format_preserve |-> prefs.format_preserve,
                add_notes |-> prefs.add_notes,
                show_original |-> prefs.show_original])

\* the numerals n.n5 below 2 whose nearest double lies above the tie, or on
\* it with an odd digit before it: round(x, 1) takes these up, the other
\* ties down
TiesRoundedUp == {5, 45, 55, 65, 75, 105, 135, 155, 175, 185}

\* variant: the value is stored as typed, without round()
Round1_NotRounded(v) == v

\* round(temp, 1) on a value given in hundredths
Round1(v) ==
    LET q == v \div 10
        r == v % 10
    IN  IF r < 5 THEN 10 * q
        ELSE IF r > 5 THEN 10 * (q + 1)
        ELSE IF v \in TiesRoundedUp THEN 10 * (q + 1) ELSE 10 * q

\* variant: the upper limit of the range test is missing
InTempRange_NoUpperLimit(arg) == arg.t = "num" /\ 10 <= arg.v

\* variant: the lower limit of the range test is missing
InTempRange_NoLowerLimit(arg) == arg.t = "num" /\ arg.v <= 100

\* 0.1 <= temp <= 1.0 on the float float() returned: false for nan and inf
InTempRange(arg) == arg.t = "num" /\ 10 <= arg.v /\ arg.v <= 100

temp_command(C, ev) ==
    LET C1 == WithStats(C, ev, "command")
    IN  IF ev.args = <<>>
        THEN LET C2 == WithPrefs(C1, ev)
             IN  reply_text(C2, ev, [kind |-> "temp_usage",
                                     current |-> C2.P[ev.user].temperature])
        ELSE LET arg == ev.args[1]
             IN  IF arg.t = "text"
                 THEN reply_text(C1, ev, [kind |-> "temp_invalid"])
                 ELSE IF InTempRange(arg)
                 THEN LET C2 == WithPrefs(C1, ev)
                          C3 == [C2 EXCEPT !.P[ev.user].temperature = Round1(arg.v)]
                      IN  reply_text(C3, ev, [kind |-> "temp_set", value |-> arg.v])
                 ELSE reply_text(C1, ev, [kind |-> "temp_range"])

-----------------------------------------------------------------------------
(* Button callbacks *)

\* query.data.startswith(prefix)
StartsWith(data, prefix) == Len(data) > 0 /\ data[1] = prefix

\* query.data.replace(prefix, ""): every occurrence of the prefix goes.
\* The payloads of CallbackData leave at most one token, which is the key.
Replace(data, prefix) ==
    LET rest == SelectSeq(data, LAMBDA tok : tok # prefix)
    IN  IF rest = <<>> THEN "" ELSE rest[1]

\* await query.answer(...)
answer(C, status) == Send(C, [kind |-> "answer", status |-> status])

\* await query.edit_message_text(...)
edit_message_text(C, r) == Send(C, r)

\* "Bật" if flag else "Tắt"
OnOff(flag) == IF flag THEN "Bat" ELSE "Tat"

\* variant: choosing a style also stores the temperature of its definition
SelectStyle_AdoptsTemperature(C, ev) ==
    LET style == Replace(ev.data, "style_")
        C1 == WithPrefs(C, ev)
        C2 == [C1 EXCEPT !.P[ev.user].style = style]
    IN  IF style \notin StyleKeys THEN Raise(C2, "KeyError")
        ELSE edit_message_text(
               [C2 EXCEPT !.P[ev.user].temperature =
                              TRANSLATION_STYLES[style].temperature],
               [kind |-> "style_set",
                style |-> TRANSLATION_STYLES[style].name,
                description |-> TRANSLATION_STYLES[style].description])

SelectStyle(C, ev) ==
    LET style == Replace(ev.data, "style_")
        C1 == WithPrefs(C, ev)
        C2 == [C1 EXCEPT !.P[ev.user].style = style]
    IN  IF style \notin StyleKeys THEN Raise(C2, "KeyError")
        ELSE edit_message_text(C2,
               [kind |-> "style_set",
                style |-> TRANSLATION_STYLES[style].name,
                description |-> TRANSLATION_STYLES[style].description])

SelectLanguage(C, ev) ==
    LET lang == Replace(ev.data, "lang_")
        C1 == WithPrefs(C, ev)
        C2 == [C1 EXCEPT !.P[ev.user].target_language = lang]
    IN  IF lang \notin LanguageCodes THEN Raise(C2, "KeyError")
        ELSE edit_message_text(C2,
               [kind |-> "lang_set", language |-> SUPPORTED_LANGUAGES[lang]])

\* variant: the flip is computed from the value the record was created with
ToggleFormat_FromDefault(C, ev) ==
    LET C1 == WithPrefs(C, ev)
        C2 == [C1 EXCEPT !.P[ev.user].format_preserve =
                             ~DEFAULT_PREFERENCES.format_preserve]
        C3 == answer(C2, <<"format", OnOff(C2.P[ev.user].format_preserve)>>)
    IN  settings_command(C3, ev)

ToggleFormat(C, ev) ==
    LET C1 == WithPrefs(C, ev)
        C2 == [C1 EXCEPT !.P[ev.user].format_preserve = ~@]
        C3 == answer(C2, <<"format", OnOff(C2.P[ev.user].format_preserve)>>)
    IN  settings_command(C3, ev)

\* variant: the notes button also flips format_preserve
ToggleNotes_FlipsFormat(C, ev) ==
    LET C1 == WithPrefs(C, ev)
        C2 == [C1 EXCEPT !.P[ev.user].add_notes = ~@,
                         !.P[ev.user].format_preserve = ~@]
        C3 == answer(C2, <<"notes", OnOff(C2.P[ev.user].add_notes)>>)
    IN  settings_command(C3, ev)

ToggleNotes(C, ev) ==
    LET C1 == WithPrefs(C, ev)
        C2 == [C1 EXCEPT !.P[ev.user].add_notes = ~@]
        C3 == answer(C2, <<"notes", OnOff(C2.P[ev.user].add_notes)>>)
    IN  settings_command(C3, ev)

ToggleOriginal(C, ev) ==
    LET C1 == WithPrefs(C, ev)
        C2 == [C1 EXCEPT !.P[ev.user].show_original = ~@]
        C3 == answer(C2, <<"original", OnOff(C2.P[ev.user].show_original)>>)
    IN  settings_command(C3, ev)

\* variant: the reset button leaves an existing record as it is
ResetSettings_KeepsExisting(C, ev) ==
    edit_message_text(WithPrefs(C, ev), [kind |-> "reset_done"])

ResetSettings(C, ev) ==
    edit_message_text(
        [C EXCEPT !.P = Put(C.P, ev.user, DEFAULT_PREFERENCES)],
        [kind |-> "reset_done"])

button_callback(C, ev) ==
    LET C0 == answer(C, <<>>)
    IN  IF StartsWith(ev.data, "style_")
        THEN IF ev.data = <<"style_", "info">>
             THEN edit_message_text(C0, [kind |-> "style_info"])
             ELSE SelectStyle(C0, ev)
        ELSE IF StartsWith(ev.data, "lang_") THEN SelectLanguage(C0, ev)
        ELSE IF ev.data = <<"toggle_format">> THEN ToggleFormat(C0, ev)
        ELSE IF ev.data = <<"toggle_notes">> THEN ToggleNotes(C0, ev)
        ELSE IF ev.data = <<"toggle_original">> THEN ToggleOriginal(C0, ev)
        ELSE IF ev.data = <<"menu_style">> THEN style_command(C0, ev)
        ELSE IF ev.data = <<"menu_language">> THEN language_command(C0, ev)
        ELSE IF ev.data = <<"menu_help">> THEN help_command(C0, ev)
        ELSE IF ev.data = <<"reset_settings">> THEN ResetSettings(C0, ev)
        ELSE C0

-----------------------------------------------------------------------------
(* Translation *)

\* SUPPORTED_LANGUAGES.get(code, 'Tiếng Việt')
TargetLanguageName(code) ==
    IF code \in LanguageCodes THEN SUPPORTED_LANGUAGES[code]
    ELSE FallbackLanguageName

\* variant: the formatting directive is appended whatever format_preserve says
PromptParts_AlwaysPreserve(text, prefs) ==
    <<[part |-> "translate_to", language |-> TargetLanguageName(prefs.target_language)],
      [part |-> "preserve_formatting"]>>
    \o (IF prefs.add_notes THEN <<[part |-> "add_notes"]>> ELSE <<>>)
    \o <<[part |-> "translation_only"],
         [part |-> "text_to_translate", text |-> text.body]>>

\* prompt_parts, the list " ".join() is applied to
PromptParts(text, prefs) ==
    <<[part |-> "translate_to", language |-> TargetLanguageName(prefs.target_language)]>>
    \o (IF prefs.format_preserve THEN <<[part |-> "preserve_formatting"]>> ELSE <<>>)
    \o (IF prefs.add_notes THEN <<[part |-> "add_notes"]>> ELSE <<>>)
    \o <<[part |-> "translation_only"],
         [part |-> "text_to_translate", text |-> text.body]>>

\* variant: the request carries the temperature of the style definition
BuildRequest_StyleTemperature(text, prefs) ==
    [sent |-> TRUE,
     model |-> "glm-4.5-flash",
     system |-> TRANSLATION_STYLES[prefs.style].system_prompt,
     user |-> PromptParts(text, prefs),
     temperature |-> TRANSLATION_STYLES[prefs.style].temperature,
     max_tokens |-> MAX_MESSAGE_LENGTH]

\* the arguments of zai_client.chat.completions.create
BuildRequest(text, prefs) ==
    [sent |-> TRUE,
     model |-> "glm-4.5-flash",
     system |-> TRANSLATION_STYLES[prefs.style].system_prompt,
     user |-> PromptParts(text, prefs),
     temperature |-> prefs.temperature,
     max_tokens |-> MAX_MESSAGE_LENGTH]

\* translate_text: the context after it, with its return value in .ret
\* (gw is what the completion service does with the request)
translate_text(C, text, user_id, gw) ==
    IF zai_client = "None"
    THEN [C EXCEPT !.ret = [text |-> [kind |-> "client_uninitialised"],
                            success |-> FALSE],
                   !.out.gateway = "uninitialised"]
    ELSE LET C1 == [C EXCEPT !.P = get_user_prefs(C.P, user_id)]
             prefs == C1.P[user_id]
         IN  IF prefs.style \notin StyleKeys THEN Raise(C1, "KeyError")
             ELSE LET C2 == [C1 EXCEPT !.out.request = BuildRequest(text, prefs),
                                       !.out.gateway_calls = @ + 1,
                                       !.out.completion = gw]
                  IN  IF gw.ok
                      THEN [C2 EXCEPT !.ret = [text |-> [kind |-> "translated",
                                                         content |-> gw.content],
                                               success |-> TRUE],
                                      !.out.gateway = "ok"]
                      ELSE [C2 EXCEPT !.ret = [text |-> [kind |-> "translate_error",
                                                         cause |-> gw.cause],
                                               success |-> FALSE],
                                      !.out.gateway = "error"]

\* variant: the translation is counted before the length guard
HandleMessageBegin_CountsRejected(C, ev) ==
    LET C1 == WithStats(C, ev, "translation")
    IN  IF ev.text.len > MAX_MESSAGE_LENGTH
        THEN reply_text(C1, ev, [kind |-> "too_long", max |-> MAX_MESSAGE_LENGTH,
                                 actual |-> ev.text.len])
        ELSE reply_text(C1, ev, [kind |-> "processing"])

\* variant: the length guard compares with >= instead of >
HandleMessageBegin_RejectsAtLimit(C, ev) ==
    IF ev.text.len >= MAX_MESSAGE_LENGTH
    THEN reply_text(C, ev, [kind |-> "too_long", max |-> MAX_MESSAGE_LENGTH,
                            actual |-> ev.text.len])
    ELSE reply_text(WithStats(C, ev, "translation"), ev, [kind |-> "processing"])

\* handle_message up to its first await after the statistics update
HandleMessageBegin(C, ev) ==
    IF ev.text.len > MAX_MESSAGE_LENGTH
    THEN reply_text(C, ev, [kind |-> "too_long", max |-> MAX_MESSAGE_LENGTH,
                            actual |-> ev.text.len])
    ELSE reply_text(WithStats(C, ev, "translation"), ev, [kind |-> "processing"])

\* variant: the original text is appended whatever show_original says
ResponseParts_AlwaysOriginal(prefs, translated, text) ==
    <<[line |-> "style", emoji |-> Head(TRANSLATION_STYLES[prefs.style].name),
       label |-> TRANSLATION_STYLES[prefs.style].name],
      [line |-> "language", emoji |-> Head(SUPPORTED_LANGUAGES[prefs.target_language]),
       label |-> SUPPORTED_LANGUAGES[prefs.target_language]],
      [line |-> "divider"],
      [line |-> "body", content |-> translated.content],
      [line |-> "divider"], [line |-> "original_header"],
      [line |-> "original", content |-> text.body]>>

\* variant: the language line comes before the style line
ResponseParts_LanguageFirst(prefs, translated, text) ==
    <<[line |-> "language", emoji |-> Head(SUPPORTED_LANGUAGES[prefs.target_language]),
       label |-> SUPPORTED_LANGUAGES[prefs.target_language]],
      [line |-> "style", emoji |-> Head(TRANSLATION_STYLES[prefs.style].name),
       label |-> TRANSLATION_STYLES[prefs.style].name],
      [line |-> "divider"],
      [line |-> "body", content |-> translated.content]>>
    \o (IF prefs.show_original
        THEN <<[line |-> "divider"], [line |-> "original_header"],
               [line |-> "original", content |-> text.body]>>
        ELSE <<>>)

\* response_parts of a successful translation
ResponseParts(prefs, translated, text) ==
    <<[line |-> "style", emoji |-> Head(TRANSLATION_STYLES[prefs.style].name),
       label |-> TRANSLATION_STYLES[prefs.style].name],
      [line |-> "language", emoji |-> Head(SUPPORTED_LANGUAGES[prefs.target_language]),
       label |-> SUPPORTED_LANGUAGES[prefs.target_language]],
      [line |-> "divider"],
      [line |-> "body", content |-> translated.content]>>
    \o (IF prefs.show_original
        THEN <<[line |-> "divider"], [line |-> "original_header"],
               [line |-> "original", content |-> text.body]>>
        ELSE <<>>)

\* variant: the reply is formatted from a record that was changed after the
\* request was built (here: put back to the defaults)
HandleMessageEnd_FormatsChangedRecord(C, ev, gw) ==
    LET C1 == translate_text(C, ev.text, ev.user, gw)
    IN  IF Raised(C1) THEN C1
        ELSE LET C2 == [C1 EXCEPT !.P = Put(C1.P, ev.user, DEFAULT_PREFERENCES)]
                 prefs == C2.P[ev.user]
             IN  IF C2.ret.success
                 THEN reply_text(C2, ev,
                        [kind |-> "translation",
                         parts |-> ResponseParts(prefs, C2.ret.text, ev.text)])
                 ELSE reply_text(C2, ev, C2.ret.text)

\* handle_message from the call of translate_text to its end
HandleMessageEnd(C, ev, gw) ==
    LET C1 == translate_text(C, ev.text, ev.user, gw)
    IN  IF Raised(C1) THEN C1
        ELSE LET C2 == WithPrefs(C1, ev)
                 prefs == C2.P[ev.user]
             IN  IF prefs.style \notin StyleKeys
                    \/ prefs.target_language \notin LanguageCodes
                 THEN Raise(C2, "KeyError")
                 ELSE IF C2.ret.success
                 THEN reply_text(C2, ev,
                        [kind |-> "translation",
                         parts |-> ResponseParts(prefs, C2.ret.text, ev.text)])
                 ELSE reply_text(C2, ev, C2.ret.text)

-----------------------------------------------------------------------------
(* The dispatch boundary *)

\* error_handler: what the application calls with an exception a handler
\* let out
error_handler(C, ev) ==
    IF HasMessage(ev)
    THEN [Send(C, [kind |-> "generic_error"]) EXCEPT !.out.reported = TRUE]
    ELSE C

\* a handler's result after the application has processed the update
Dispatched(C, ev) == IF Raised(C) THEN error_handler(C, ev) ELSE C

-----------------------------------------------------------------------------
(* Startup *)

\* Config.validate: TELEGRAM_TOKEN is "none" (unset or empty), "nocolon"
\* (set, without a ':') or "ok"; ZAI_API_KEY is "none" or "ok".
\* startswith(('bot', '')) holds of every string, so the format test is
\* the ':' alone.
validate ==
    /\ Config.TELEGRAM_TOKEN = "ok"
    /\ Config.ZAI_API_KEY = "ok"

\* the value initialize_zai_client leaves in zai_client
initialize_zai_client ==
    IF Config.ZAI_API_KEY = "ok" /\ clientBuilds THEN "client" ELSE "None"

Init ==
    /\ phase = "startup"
    /\ Config \in [TELEGRAM_TOKEN : {"none", "nocolon", "ok"},
                   ZAI_API_KEY : {"none", "ok"},
                   ENABLE_STATS : BOOLEAN]
    /\ clientBuilds \in BOOLEAN
    /\ zai_client = "None"
    /\ user_preferences = <<>>
    /\ user_statistics = <<>>
    /\ now = 0
    /\ inflight = NoUpdate
    /\ last = [Started(NoUpdate) EXCEPT !.done = TRUE]

\* variant: main() goes on to polling without looking at zai_client
Main_NoClientCheck ==
    /\ phase = "startup"
    /\ IF ~validate
       THEN phase' = "exited" /\ UNCHANGED zai_client
       ELSE /\ zai_client' = initialize_zai_client
            /\ phase' = "running"
    /\ UNCHANGED <<Config, clientBuilds, user_preferences, user_statistics,
                   now, inflight, last>>

\* main() up to the start of polling
Main ==
    /\ phase = "startup"
    /\ IF ~validate
       THEN phase' = "exited" /\ UNCHANGED zai_client
       ELSE /\ zai_client' = initialize_zai_client
            /\ phase' = IF initialize_zai_client = "None" THEN "exited"
                        ELSE "running"
    /\ UNCHANGED <<Config, clientBuilds, user_preferences, user_statistics,
                   now, inflight, last>>

-----------------------------------------------------------------------------
(* Updates *)

\* the application fetches the next update only when the handler of the one
\* before has returned
CanDispatch ==
    /\ phase = "running"
    /\ inflight = NoUpdate
    /\ now < MaxEvents

\* the context a handler starts in when its update is dispatched
Fresh(ev) == Ctx(user_preferences, user_statistics, now + 1, Started(ev))

\* an update whose handler runs to its end within one step; result is the
\* context the handler leaves
Handle(result, ev) ==
    /\ CanDispatch
    /\ \E C \in {Dispatched(result, ev)} :
        /\ user_preferences' = C.P
        /\ user_statistics' = C.S
        /\ last' = [C.out EXCEPT !.done = TRUE]
        /\ now' = now + 1
        /\ UNCHANGED <<phase, Config, clientBuilds, zai_client, inflight>>

Command(u, name, args) ==
    [kind |-> "command", user |-> u, name |-> name, args |-> args]

Start ==
    \E u \in Users :
        LET ev == Command(u, "start", <<>>)
        IN  Handle(start(Fresh(ev), ev), ev)

Help ==
    \E u \in Users :
        LET ev == Command(u, "help", <<>>)
        IN  Handle(help_command(Fresh(ev), ev), ev)

About ==
    \E u \in Users :
        LET ev == Command(u, "about", <<>>)
        IN  Handle(about_command(Fresh(ev), ev), ev)

Style ==
    \E u \in Users :
        LET ev == Command(u, "style", <<>>)
        IN  Handle(style_command(Fresh(ev), ev), ev)

Language ==
    \E u \in Users :
        LET ev == Command(u, "language", <<>>)
        IN  Handle(language_command(Fresh(ev), ev), ev)

Settings ==
    \E u \in Users :
        LET ev == Command(u, "settings", <<>>)
        IN  Handle(settings_command(Fresh(ev), ev), ev)

Temp ==
    \E u \in Users, args \in {<<>>} \cup {<<a>> : a \in TempArgs} :
        LET ev == Command(u, "temp", args)
        IN  Handle(temp_command(Fresh(ev), ev), ev)

Stats ==
    \E u \in Users :
        LET ev == Command(u, "stats", <<>>)
        IN  Handle(stats_command(Fresh(ev), ev), ev)

Reset ==
    \E u \in Users :
        LET ev == Command(u, "reset", <<>>)
        IN  Handle(reset_command(Fresh(ev), ev), ev)

ButtonCallback ==
    \E u \in Users, data \in CallbackData :
        LET ev == [kind |-> "callback", user |-> u, data |-> data]
        IN  Handle(button_callback(Fresh(ev), ev), ev)

\* handle_message, from the update to the await before translate_text (or to
\* its end when the length guard rejects the text)
HandleMessageStart ==
    /\ CanDispatch
    /\ \E u \in Users, text \in Texts :
        LET ev == [kind |-> "text", user |-> u, text |-> text]
        IN  \E C \in {Dispatched(HandleMessageBegin(Fresh(ev), ev), ev)} :
            LET over == text.len > MAX_MESSAGE_LENGTH \/ Raised(C)
            IN  /\ user_preferences' = C.P
                /\ user_statistics' = C.S
                /\ last' = [C.out EXCEPT !.done = over]
                /\ inflight' = IF over THEN NoUpdate ELSE ev
                /\ now' = now + 1
                /\ UNCHANGED <<phase, Config, clientBuilds, zai_client>>

\* handle_message, from translate_text to the final reply
HandleMessageFinish ==
    /\ phase = "running"
    /\ inflight # NoUpdate
    /\ \E gw \in GatewayResults :
        \E C \in {Dispatched(HandleMessageEnd(
                      Ctx(user_preferences, user_statistics, now, last),
                      inflight, gw), inflight)} :
            /\ user_preferences' = C.P
            /\ user_statistics' = C.S
            /\ last' = [C.out EXCEPT !.done = TRUE]
            /\ inflight' = NoUpdate
            /\ UNCHANGED <<phase, Config, clientBuilds, zai_client, now>>

Next ==
    \/ Main
    \/ Start
    \/ Help
    \/ About
    \/ Style
    \/ Language
    \/ Settings
    \/ Temp
    \/ Stats
    \/ Reset
    \/ ButtonCallback
    \/ HandleMessageStart
    \/ HandleMessageFinish

Spec == Init /\ [][Next]_vars

-----------------------------------------------------------------------------
(* Vocabulary of the properties *)

\* the record a read of the caller's preferences returns (get creates the
\* defaults on first reference)
PrefsOf(P, u) == get_user_prefs(P, u)[u]

\* the step dispatches an update (the clock ticks once per update)
Dispatches == now' = now + 1

IsCommand(ev, name) == ev.kind = "command" /\ ev.name = name
IsCallback(ev) == ev.kind = "callback"
IsText(ev) == ev.kind = "text"

\* a style-selection button: "style_<key>" other than "style_info"
IsStyleSelection(ev) ==
    /\ IsCallback(ev)
    /\ Len(ev.data) = 2
    /\ ev.data[1] = "style_"
    /\ ev.data[2] # "info"

\* /temp with an argument
IsTempWithArg(ev) == IsCommand(ev, "temp") /\ ev.args # <<>>

\* the argument is a number within [0.1, 1.0]
TempArgInRange(ev) ==
    /\ ev.args[1].t = "num"
    /\ ev.args[1].v >= 10
    /\ ev.args[1].v <= 100

KindsOf(replies) == {replies[i].kind : i \in DOMAIN replies}

-----------------------------------------------------------------------------
(* C1..C10 *)

\* C1: a style-selection button whose key is not in the Catalog fails, and
\* the caller's preference record reads the same after it as before it; its
\* style still names an existing style.
C1_UnknownStyleLeavesPrefs ==
    [][(Dispatches /\ IsStyleSelection(last'.update)
        /\ last'.update.data[2] \notin StyleKeys)
       => /\ last'.raised # NoException
          /\ PrefsOf(user_preferences', last'.update.user)
               = PrefsOf(user_preferences, last'.update.user)
          /\ PrefsOf(user_preferences', last'.update.user).style \in StyleKeys]_vars

\* C2: in every reachable state the target language of every preference
\* record is a code of the Catalog.
C2_LanguageAlwaysInCatalog ==
    \A u \in DOMAIN user_preferences :
        user_preferences[u].target_language \in LanguageCodes

\* C3: in every reachable state the temperature of every preference record
\* lies in [0.1, 1.0].
C3_TemperatureInRange ==
    \A u \in DOMAIN user_preferences :
        /\ user_preferences[u].temperature >= 10
        /\ user_preferences[u].temperature <= 100

\* C3 witness: a caller holds the upper limit 1.0 and has just had /temp 1.05
\* turned down.
C3_Witness ==
    /\ last.done
    /\ IsTempWithArg(last.update)
    /\ last.update.args[1] = [t |-> "num", v |-> 105]
    /\ last.update.user \in DOMAIN user_preferences
    /\ user_preferences[last.update.user].temperature = 100

\* C4: /temp with a value below 0.1, above 1.0 or not a number is answered
\* with the out-of-range or the invalid-number reply alone, and no preference
\* record changes.
C4_BadTemperatureRejected ==
    [][(Dispatches /\ IsTempWithArg(last'.update)
        /\ ~TempArgInRange(last'.update))
       => /\ last'.replies \in {<<[kind |-> "temp_range"]>>,
                                <<[kind |-> "temp_invalid"]>>}
          /\ last'.raised = NoException
          /\ user_preferences' = user_preferences]_vars

\* C4 witness: a caller whose temperature is 0.8 and whose format flag is off
\* has just had /temp nan turned down.
C4_Witness ==
    /\ last.done
    /\ IsTempWithArg(last.update)
    /\ last.update.args[1] = [t |-> "nan"]
    /\ last.replies = <<[kind |-> "temp_range"]>>
    /\ last.update.user \in DOMAIN user_preferences
    /\ user_preferences[last.update.user].temperature = 80
    /\ ~user_preferences[last.update.user].format_preserve

\* C5: /temp with a value in [0.1, 1.0] is accepted; the stored temperature
\* is then a multiple of 0.1 within [0.1, 1.0] at most 0.05 away from the
\* value, and nothing else in the store changes.
C5_GoodTemperatureStoredRounded ==
    [][(Dispatches /\ IsTempWithArg(last'.update)
        /\ TempArgInRange(last'.update))
       => LET u == last'.update.user
              v == last'.update.args[1].v
              stored == user_preferences'[u].temperature
          IN  /\ last'.replies = <<[kind |-> "temp_set", value |-> v]>>
              /\ stored % 10 = 0
              /\ stored >= 10 /\ stored <= 100
              /\ stored - v <= 5 /\ v - stored <= 5
              /\ user_preferences' =
                   Put(user_preferences, u,
                       [PrefsOf(user_preferences, u) EXCEPT !.temperature = stored])]_vars

\* C5 witness: /temp 0.75 has just been accepted for a caller whose style is
\* casual, and 0.8 is stored.
C5_Witness ==
    /\ last.done
    /\ IsTempWithArg(last.update)
    /\ last.update.args[1] = [t |-> "num", v |-> 75]
    /\ user_preferences[last.update.user].temperature = 80
    /\ user_preferences[last.update.user].style = "casual"

\* a reset: the /reset command or the "reset_settings" button
IsReset(ev) ==
    \/ IsCommand(ev, "reset")
    \/ IsCallback(ev) /\ ev.data = <<"reset_settings">>

\* C6: after a reset the caller's preferences read as the default record:
\* style professional, language vi, temperature 0.3, preserveFormatting
\* true, addExplanatoryNotes false, showOriginalText false.
C6_ResetGivesDefaults ==
    (last.done /\ IsReset(last.update))
    => PrefsOf(user_preferences, last.update.user)
         = [style |-> "professional", target_language |-> "vi",
            temperature |-> 30, format_preserve |-> TRUE,
            add_notes |-> FALSE, show_original |-> FALSE]

\* C6 witness: the reset button has acted as the third update of a run, and
\* the caller's record is the default one.
C6_Witness ==
    /\ last.done
    /\ IsCallback(last.update)
    /\ last.update.data = <<"reset_settings">>
    /\ now = 3
    /\ user_preferences[last.update.user] = DEFAULT_PREFERENCES

\* C7: a text longer than the maximum gets the too-long reply with the
\* maximum and its length and nothing else: no request is built, the
\* completion service is not called, the handler is over.  A text of at most
\* the maximum gets no too-long reply.
C7_LengthGuard ==
    IsText(last.update)
    => IF last.update.text.len > 4000
       THEN /\ last.replies = <<[kind |-> "too_long", max |-> 4000,
                                 actual |-> last.update.text.len]>>
            /\ last.request = NoRequest
            /\ last.gateway_calls = 0
            /\ last.gateway = "not_called"
            /\ last.done
            /\ inflight = NoUpdate
       ELSE /\ "too_long" \notin KindsOf(last.replies)
            /\ last.replies # <<>>
            /\ last.replies[1] = [kind |-> "processing"]

\* C7 witness: a text of length 4001 has been turned down.
C7_Witness ==
    /\ IsText(last.update)
    /\ last.update.text.len = 4001
    /\ last.replies = <<[kind |-> "too_long", max |-> 4000, actual |-> 4001]>>
    /\ last.done

\* C8: an exception that leaves the handler of any update is reported to the
\* caller with the generic retry message, and the process goes on running.
C8_ExceptionsReported ==
    (last.done /\ last.raised # NoException)
    => /\ last.reported
       /\ "generic_error" \in KindsOf(last.replies)
       /\ phase = "running"

\* C9: a text message of a caller whose target language is not in the
\* Catalog (and whose style is) does not fail: the request names the default
\* language, and the caller gets the translation or the translation error.
C9_StaleLanguageFallsBack ==
    (/\ last.done
     /\ IsText(last.update)
     /\ last.update.text.len <= MAX_MESSAGE_LENGTH
     /\ PrefsOf(user_preferences, last.update.user).target_language
            \notin LanguageCodes
     /\ PrefsOf(user_preferences, last.update.user).style \in StyleKeys)
    => /\ last.raised = NoException
       /\ last.request.sent
       /\ last.request.user[1].language = FallbackLanguageName
       /\ KindsOf(last.replies) \cap {"translation", "translate_error"} # {}

\* C10: when the completion call fails, no exception leaves the message
\* handler and the caller gets the error message with the cause as the final
\* reply, without any part of a translation reply.
C10_GatewayFailureReported ==
    (last.done /\ last.gateway \in {"error", "uninitialised"})
    => /\ last.raised = NoException
       /\ last.replies # <<>>
       /\ last.replies[Len(last.replies)].kind
            \in {"translate_error", "client_uninitialised"}
       /\ "translation" \notin KindsOf(last.replies)

-----------------------------------------------------------------------------
(* C11..C20 *)

\* the last update was a text message answered with a translation
Translated ==
    /\ last.done
    /\ IsText(last.update)
    /\ last.replies # <<>>
    /\ last.replies[Len(last.replies)].kind = "translation"

\* the lines of the translation reply
TranslationParts == last.replies[Len(last.replies)].parts

\* the strings a line of the reply shows
StringsOf(part) ==
    IF part.line \in {"body", "original"} THEN {part.content}
    ELSE IF part.line \in {"style", "language"}
    THEN {part.emoji} \cup {part.label[i] : i \in DOMAIN part.label}
    ELSE {}

\* the string occurs in some line of the reply
Appears(str, parts) == \E i \in DOMAIN parts : str \in StringsOf(parts[i])

RequestSent == IsText(last.update) /\ last.request.sent

\* C13: the user instruction of a request is, in this order, the translation
\* directive naming the resolved target language, the formatting directive
\* iff format_preserve, the notes directive iff add_notes, the
\* translation-only directive, and the header with the input text.
C13_UserInstruction ==
    RequestSent
    => LET prefs == user_preferences[last.update.user]
           code == prefs.target_language
           T == [part |-> "translate_to",
                 language |-> IF code \in LanguageCodes
                              THEN SUPPORTED_LANGUAGES[code]
                              ELSE <<"Tieng", "Viet">>]
           F == [part |-> "preserve_formatting"]
           N == [part |-> "add_notes"]
           R == [part |-> "translation_only"]
           X == [part |-> "text_to_translate", text |-> last.update.text.body]
       IN  /\ (prefs.format_preserve /\ prefs.add_notes)
                => last.request.user = <<T, F, N, R, X>>
           /\ (prefs.format_preserve /\ ~prefs.add_notes)
                => last.request.user = <<T, F, R, X>>
           /\ (~prefs.format_preserve /\ prefs.add_notes)
                => last.request.user = <<T, N, R, X>>
           /\ (~prefs.format_preserve /\ ~prefs.add_notes)
                => last.request.user = <<T, R, X>>

\* C13 witness: a request of a caller with format_preserve off and add_notes
\* on.
C13_Witness ==
    /\ RequestSent
    /\ ~user_preferences[last.update.user].format_preserve
    /\ user_preferences[last.update.user].add_notes
    /\ Len(last.request.user) = 4

\* C14: a request carries the system instruction of the style stored for the
\* caller and the temperature stored for the caller.
C14_SystemAndTemperature ==
    RequestSent
    => LET prefs == user_preferences[last.update.user]
       IN  /\ prefs.style \in StyleKeys
           /\ last.request.system = TRANSLATION_STYLES[prefs.style].system_prompt
           /\ last.request.temperature = prefs.temperature

\* C14 witness: a request of a caller who chose the casual style and set the
\* temperature to 0.8.
C14_Witness ==
    /\ RequestSent
    /\ user_preferences[last.update.user].style = "casual"
    /\ user_preferences[last.update.user].temperature = 80
    /\ last.request.system = "SYS_CASUAL"
    /\ last.request.temperature = 80

\* C15: with ENABLE_STATS off the statistics store stays empty.
C15_NoStatsWhenDisabled == ~Config.ENABLE_STATS => user_statistics = <<>>

\* C15 witness: with ENABLE_STATS off, a translation has been delivered after
\* at least one other update, and /stats answers that statistics are off.
C15_Witness ==
    /\ ~Config.ENABLE_STATS
    /\ user_statistics = <<>>
    /\ \/ Translated /\ now >= 2
       \/ /\ IsCommand(last.update, "stats")
          /\ last.replies = <<[kind |-> "stats_disabled"]>>
          /\ now >= 2

\* C16: with ENABLE_STATS on, no step removes a statistics record or lowers
\* its translations, commands or last_use, and a step that creates or changes
\* a record leaves the time of the update in its last_use.
C16_StatsMonotone ==
    [][Config.ENABLE_STATS
       => /\ \A u \in DOMAIN user_statistics :
              /\ u \in DOMAIN user_statistics'
              /\ user_statistics'[u].translations >= user_statistics[u].translations
              /\ user_statistics'[u].commands >= user_statistics[u].commands
              /\ user_statistics'[u].last_use >= user_statistics[u].last_use
              /\ user_statistics'[u].first_use = user_statistics[u].first_use
          /\ \A u \in DOMAIN user_statistics' :
              (u \notin DOMAIN user_statistics
               \/ user_statistics'[u] # user_statistics[u])
              => /\ user_statistics'[u].last_use = now'
                 /\ u = last'.update.user]_vars

\* C16 witness: /reset by a caller who has translated before; the counters
\* are kept and last_use is the time of the /reset.
C16_Witness ==
    /\ Config.ENABLE_STATS
    /\ IsCommand(last.update, "reset")
    /\ last.update.user \in DOMAIN user_statistics
    /\ user_statistics[last.update.user].translations >= 1
    /\ user_statistics[last.update.user].commands >= 1
    /\ user_statistics[last.update.user].last_use = now
    /\ user_statistics[last.update.user].first_use < now
    /\ user_preferences[last.update.user] = DEFAULT_PREFERENCES

\* the three toggle buttons and the field each one names
IsToggle(ev) ==
    /\ IsCallback(ev)
    /\ ev.data \in {<<"toggle_format">>, <<"toggle_notes">>, <<"toggle_original">>}

FlagOf(ev) ==
    CASE ev.data = <<"toggle_format">> -> "format_preserve"
      [] ev.data = <<"toggle_notes">> -> "add_notes"
      [] ev.data = <<"toggle_original">> -> "show_original"

LabelOf(ev) ==
    CASE ev.data = <<"toggle_format">> -> "format"
      [] ev.data = <<"toggle_notes">> -> "notes"
      [] ev.data = <<"toggle_original">> -> "original"

\* ev repeats the toggle that the update before it, whose outcome is prev,
\* carried out for the same caller
SecondOfTwo(prev, ev) ==
    /\ IsToggle(prev.update)
    /\ prev.update = ev
    /\ Len(prev.replies) >= 2
    /\ prev.replies[2].kind = "answer"

\* C17: a toggle is dispatched only when the handler of the update before it
\* has returned; it leaves the negation of the value it finds; and the second
\* of two toggles of the same flag by the same caller leaves the value the
\* flag had before the first (the opposite of what the first reported).
C17_TogglesSerialized ==
    [][(Dispatches /\ IsToggle(last'.update))
       => LET u == last'.update.user
              f == FlagOf(last'.update)
          IN  /\ inflight = NoUpdate
              /\ last.done
              /\ inflight' = NoUpdate
              /\ last'.done
              /\ user_preferences'[u][f] = ~PrefsOf(user_preferences, u)[f]
              /\ SecondOfTwo(last, last'.update)
                 => OnOff(user_preferences'[u][f]) # last.replies[2].status[2]]_vars

\* C17 witness: two format toggles of caller 101 are the only updates so
\* far, and format_preserve is back at the value it started with.
C17_Witness ==
    /\ now = 2
    /\ last.done
    /\ last.update = [kind |-> "callback", user |-> 101, data |-> <<"toggle_format">>]
    /\ user_preferences[101].format_preserve = DEFAULT_PREFERENCES.format_preserve
    /\ last.replies[2].status = <<"format", OnOff(DEFAULT_PREFERENCES.format_preserve)>>

\* C18: a toggle changes, in the whole preference store, only the field it
\* names of the caller's record, which it negates; its answer names the field
\* and the new value; the second of two successive toggles of the same flag
\* leaves the record different from the one it found only by the flag being
\* back at the opposite of what the first toggle reported.
C18_ToggleFrame ==
    [][(Dispatches /\ IsToggle(last'.update))
       => LET u == last'.update.user
              f == FlagOf(last'.update)
              rec == PrefsOf(user_preferences, u)
          IN  /\ user_preferences' = Put(user_preferences, u, [rec EXCEPT ![f] = ~@])
              /\ Len(last'.replies) >= 2
              /\ last'.replies[2] =
                    [kind |-> "answer",
                     status |-> <<LabelOf(last'.update), OnOff(~rec[f])>>]
              /\ SecondOfTwo(last, last'.update)
                 => user_preferences'[u] =
                        [rec EXCEPT ![f] = (last.replies[2].status[2] = "Tat")]]_vars

\* C18 witness: two notes toggles of a caller are the only updates so far,
\* and the record of the caller is again the one it was created with.
C18_Witness ==
    /\ now = 2
    /\ last.done
    /\ IsToggle(last.update)
    /\ last.update.data = <<"toggle_notes">>
    /\ user_preferences = Put(<<>>, last.update.user, DEFAULT_PREFERENCES)
    /\ last.replies[2].status = <<"notes", OnOff(DEFAULT_PREFERENCES.add_notes)>>

\* updates whose handlers read the caller's record, or create it, without
\* writing a field of it
CreatesOnly(ev) ==
    \/ IsText(ev)
    \/ ev.kind = "command" /\ ev.args = <<>>

\* C19: no step changes or removes the record of a caller other than the one
\* the update came from; a record appears only for the caller of the update;
\* and a record that appears on a text message or a command without
\* arguments is DEFAULT_PREFERENCES.
C19_NoCrossCallerSharing ==
    [][\A B \in Users :
          /\ (B \in DOMAIN user_preferences /\ B # last'.update.user)
             => /\ B \in DOMAIN user_preferences'
                /\ user_preferences'[B] = user_preferences[B]
          /\ (B \notin DOMAIN user_preferences /\ B \in DOMAIN user_preferences')
             => /\ B = last'.update.user
                /\ CreatesOnly(last'.update)
                   => user_preferences'[B] = DEFAULT_PREFERENCES]_vars

\* C19 witness: caller 101 changed two fields of its record, then caller 202
\* sent its first text; the record of 202 is the defaults and the record of
\* 101 is as 101 left it.
C19_Witness ==
    /\ now = 3
    /\ IsText(last.update)
    /\ last.update.user = 202
    /\ DOMAIN user_preferences = {101, 202}
    /\ user_preferences[202] = DEFAULT_PREFERENCES
    /\ user_preferences[101].temperature # DEFAULT_PREFERENCES.temperature
    /\ user_preferences[101].add_notes # DEFAULT_PREFERENCES.add_notes

\* the configuration main() refuses to run with
InvalidConfiguration ==
    \/ Config.TELEGRAM_TOKEN = "none"
    \/ Config.ZAI_API_KEY = "none"
    \/ ~clientBuilds

\* C20: with a credential absent, or with a client that cannot be built, the
\* program never reaches polling and no update is ever handled.
C20_InvalidConfigurationNeverRuns ==
    InvalidConfiguration
    => /\ phase # "running"
       /\ now = 0
       /\ inflight = NoUpdate
       /\ last.update = NoUpdate
       /\ user_preferences = <<>>
       /\ user_statistics = <<>>

\* C20 witness: both credentials are present, the client could not be built,
\* and main() has exited.
C20_Witness ==
    /\ Config.TELEGRAM_TOKEN = "ok"
    /\ Config.ZAI_API_KEY = "ok"
    /\ ~clientBuilds
    /\ zai_client = "None"
    /\ phase = "exited"

-----------------------------------------------------------------------------
(* C21..C25 *)

\* the completion call of a text message is outstanding
CallOutstanding == phase = "running" /\ inflight # NoUpdate

\* an update of a caller other than the one whose call is outstanding is
\* dispatched
OtherCallerDispatched ==
    /\ Next
    /\ Dispatches
    /\ last'.update.user # inflight.user

\* C21: while the completion call of one caller is outstanding, an update of
\* another caller can be dispatched (as long as updates remain to dispatch).
C21_OutstandingCallDoesNotBlock ==
    (CallOutstanding /\ now < MaxEvents) => ENABLED OtherCallerDispatched

\* the step in which handle_message calls translate_text and answers
FinishesMessage == inflight # NoUpdate /\ inflight' = NoUpdate

\* C22: a style-selection button changes, in the whole preference store, only
\* the style field of the caller's record; and the request a text message
\* sends carries the temperature that was stored when its handler reached
\* translate_text, whatever style is stored by then.
C22_StyleSelectionKeepsTemperature ==
    [][/\ (Dispatches /\ IsStyleSelection(last'.update))
          => LET u == last'.update.user
                 rec == PrefsOf(user_preferences, u)
             IN  /\ user_preferences' =
                        Put(user_preferences, u,
                            [rec EXCEPT !.style = last'.update.data[2]])
                 /\ user_preferences'[u].temperature = rec.temperature
       /\ (FinishesMessage /\ last'.request.sent)
          => last'.request.temperature =
                 PrefsOf(user_preferences, inflight.user).temperature]_vars

\* C22 witness: a caller set the temperature to 0.1, chose the casual style
\* (whose own temperature is 0.5), and the request of the text message that
\* followed carries 0.1.
C22_Witness ==
    /\ RequestSent
    /\ user_preferences[last.update.user].style = "casual"
    /\ user_preferences[last.update.user].temperature = 10
    /\ TRANSLATION_STYLES["casual"].temperature # 10
    /\ last.request.system = TRANSLATION_STYLES["casual"].system_prompt
    /\ last.request.temperature = 10

\* stats['translations'] of a caller, 0 while the caller has no record
TranslationsOf(S, u) == IF u \in DOMAIN S THEN S[u].translations ELSE 0

\* C23: with ENABLE_STATS on, the store starts empty; the dispatch of a text
\* message within the length limit adds one to the caller's translations and
\* leaves those of every other caller; the dispatch of a text message over
\* the limit leaves the whole statistics store as it is; and no other step
\* (the completion call succeeding or failing, a command, a button) changes
\* the translations of any caller.
C23_TranslationsCountAcceptedTexts ==
    /\ user_statistics = <<>>
    /\ [][Config.ENABLE_STATS
          => IF Dispatches /\ IsText(last'.update)
             THEN IF last'.update.text.len <= MAX_MESSAGE_LENGTH
                  THEN /\ last'.update.user \in DOMAIN user_statistics'
                       /\ \A u \in Users :
                            TranslationsOf(user_statistics', u) =
                              TranslationsOf(user_statistics, u)
                              + (IF u = last'.update.user THEN 1 ELSE 0)
                  ELSE user_statistics' = user_statistics
             ELSE \A u \in Users :
                     TranslationsOf(user_statistics', u) =
                       TranslationsOf(user_statistics, u)]_vars

\* C23 witness: a caller whose one earlier text was counted has just had a
\* text rejected as too long; the record still shows one translation and the
\* time of the earlier text.
C23_Witness ==
    /\ Config.ENABLE_STATS
    /\ now = 2
    /\ IsText(last.update)
    /\ last.replies = <<[kind |-> "too_long", max |-> MAX_MESSAGE_LENGTH,
                         actual |-> last.update.text.len]>>
    /\ last.update.user \in DOMAIN user_statistics
    /\ user_statistics[last.update.user].translations = 1
    /\ user_statistics[last.update.user].last_use = 1

\* the style keys whose system_prompt is the one a request carries
StylesOfRequest(request) ==
    {k \in StyleKeys : TRANSLATION_STYLES[k].system_prompt = request.system}

\* C24: in a translation reply the style line is the name of the style whose
\* system instruction the request of that message carried, and the language
\* line is the language name the request's translation directive named.
C24_LabelsMatchRequest ==
    Translated
    => /\ last.request.sent
       /\ last.gateway_calls = 1
       /\ \E k \in StylesOfRequest(last.request) :
            /\ StylesOfRequest(last.request) = {k}
            /\ TranslationParts[1] =
                 [line |-> "style", emoji |-> Head(TRANSLATION_STYLES[k].name),
                  label |-> TRANSLATION_STYLES[k].name]
       /\ last.request.user[1].part = "translate_to"
       /\ TranslationParts[2].line = "language"
       /\ TranslationParts[2].label = last.request.user[1].language

\* C24 witness: a translation reply to a caller who had chosen the casual
\* style and English; the request and the reply both carry them.
C24_Witness ==
    /\ Translated
    /\ last.request.system = "SYS_CASUAL"
    /\ last.request.user[1].language = SUPPORTED_LANGUAGES["en"]
    /\ TranslationParts[1].label = TRANSLATION_STYLES["casual"].name
    /\ TranslationParts[2].label = SUPPORTED_LANGUAGES["en"]

\* C25: with ENABLE_STATS on, the first_use of a record is the time of the
\* update that created the record, no later step changes it, and in every
\* state first_use is not later than last_use.
C25_FirstUseFixed ==
    /\ [](Config.ENABLE_STATS
          => \A u \in DOMAIN user_statistics :
                user_statistics[u].first_use <= user_statistics[u].last_use)
    /\ [][Config.ENABLE_STATS
          => \A u \in DOMAIN user_statistics' :
                IF u \in DOMAIN user_statistics
                THEN user_statistics'[u].first_use = user_statistics[u].first_use
                ELSE user_statistics'[u].first_use = now']_vars

\* C25 witness: a record created by the first update and used again by the
\* third: first_use is still the time of the first.
C25_Witness ==
    /\ Config.ENABLE_STATS
    /\ now = 3
    /\ \E u \in DOMAIN user_statistics :
        /\ user_statistics[u].first_use = 1
        /\ user_statistics[u].last_use = 3
        /\ user_statistics[u].translations + user_statistics[u].commands = 3

=============================================================================
